---- MODULE Spec2Model ----
(***************************************************************************)
(* Rule engine of generator.py: wearable_risk_score, map_total_to_label    *)
(* and rule_label_row, with the THRESHOLDS configuration.                  *)
(*                                                                         *)
(* Units.  hr_bpm, spo2_pct and skin_temp are modelled in tenths (88.0 is  *)
(* 880, 37.8 is 378), and so are the thresholds compared against them.     *)
(* Blood pressure, altitude and steps are modelled in whole units.         *)
(* A missing reading is the float NaN: every ordered comparison with NaN   *)
(* is False in Python, and np.isnan is the only test that recognises it.   *)
(***************************************************************************)
EXTENDS Integers, Sequences, FiniteSets

\* ------------------------------------------------------------------ bounds
\* label totals handed to map_total_to_label on its own range over 0..MaxTotal
MaxTotal == 101

\* ------------------------------------------------------- missing readings
\* the NaN value of a float column (no reading is ever this small)
NaN == -1000000

\* np.isnan(x)
IsNan(x) == x = NaN

\* Python float comparisons: False whenever the left operand is NaN.
\* The TotalOrder variants are comparisons that do not know of NaN: the
\* missing reading then compares like a number (below, or above, everything).
LtTotalOrder(x, c) == x < c

Lt(x, c) == ~IsNan(x) /\ x < c

Ge(x, c) == ~IsNan(x) /\ x >= c

GtTotalOrder(x, c) == IsNan(x) \/ x > c

Gt(x, c) == ~IsNan(x) /\ x > c

\* ------------------------------------------------------------ configuration
WEATHERS == <<"Clear", "Hot", "Cold", "Rain", "Storm", "Snow", "Windy", "Fog">>

\* label bands with the first band stretched by one (LOW up to 3)
LabelBandsShifted ==
  << [lo |-> 0,  hi |-> 3,  lab |-> "LOW"],
     [lo |-> 3,  hi |-> 6,  lab |-> "MODERATE"],
     [lo |-> 7,  hi |-> 11, lab |-> "HIGH"],
     [lo |-> 12, hi |-> 99, lab |-> "CRITICAL"] >>

LabelBands ==
  << [lo |-> 0,  hi |-> 2,  lab |-> "LOW"],
     [lo |-> 3,  hi |-> 6,  lab |-> "MODERATE"],
     [lo |-> 7,  hi |-> 11, lab |-> "HIGH"],
     [lo |-> 12, hi |-> 99, lab |-> "CRITICAL"] >>

THRESHOLDS ==
  [ hr        |-> [low_upper |-> 1100, mod_upper |-> 1300, high_upper |-> 1400,
                   low_lower |-> 600,  mod_lower |-> 500,  high_lower |-> 450],
    spo2      |-> [low |-> 950, mod |-> 920, high |-> 880],
    skin_temp |-> [fever_low |-> 378, fever_high |-> 385,
                   hypo_low |-> 355, hypo_high |-> 350],
    bp_sys    |-> [high1 |-> 140, high2 |-> 160, high3 |-> 180,
                   low1 |-> 90, low2 |-> 80, low3 |-> 70],
    bp_dia    |-> [high1 |-> 90, high2 |-> 100, high3 |-> 110,
                   low1 |-> 60, low2 |-> 50, low3 |-> 45],
    steps     |-> [very_low |-> 2000, low |-> 400, very_high |-> 30000],
    altitude_spo2 |-> [alt_high1 |-> 2500, alt_high2 |-> 3000,
                       spo2_soft |-> 940, spo2_hard |-> 920, spo2_crit |-> 880],
    label_bands |-> LabelBands ]

\* ------------------------------------------------------ wearable_risk_score
HrScore(hr_bpm) ==
  LET hr == THRESHOLDS.hr IN
  IF IsNan(hr_bpm) THEN 0
  ELSE IF hr_bpm > hr.high_upper \/ hr_bpm < hr.high_lower THEN 3
  ELSE IF hr_bpm > hr.mod_upper \/ hr_bpm < hr.mod_lower THEN 2
  ELSE IF hr_bpm > hr.low_upper \/ hr_bpm < hr.low_lower THEN 1
  ELSE 0

\* the oxygen tiers with inclusive cutoffs
Spo2ScoreInclusive(spo2_pct) ==
  LET sp == THRESHOLDS.spo2 IN
  IF IsNan(spo2_pct) THEN 0
  ELSE IF spo2_pct <= sp.high THEN 3
  ELSE IF spo2_pct <= sp.mod THEN 2
  ELSE IF spo2_pct <= sp.low THEN 1
  ELSE 0

Spo2Score(spo2_pct) ==
  LET sp == THRESHOLDS.spo2 IN
  IF IsNan(spo2_pct) THEN 0
  ELSE IF spo2_pct < sp.high THEN 3
  ELSE IF spo2_pct < sp.mod THEN 2
  ELSE IF spo2_pct < sp.low THEN 1
  ELSE 0

SkinScore(skin_temp_c) ==
  LET st == THRESHOLDS.skin_temp IN
  IF IsNan(skin_temp_c) THEN 0
  ELSE IF skin_temp_c >= st.fever_high THEN 3
  ELSE IF skin_temp_c >= st.fever_low THEN 2
  ELSE IF skin_temp_c <= st.hypo_high THEN 2
  ELSE IF skin_temp_c <= st.hypo_low THEN 1
  ELSE 0

\* the running score after each of the three blocks, and the value returned
WearableRiskScore(hr_bpm, spo2_pct, skin_temp_c) ==
  LET s1 == 0 + HrScore(hr_bpm)
      s2 == s1 + Spo2Score(spo2_pct)
      s3 == s2 + SkinScore(skin_temp_c)
  IN  [hr |-> s1, spo2 |-> s2, skin |-> s3]

\* ------------------------------------------------------- map_total_to_label
RECURSIVE ScanBands(_, _, _)
\* index of the first band containing total, scanning from band i; 0 if none
ScanBands(total, bands, i) ==
  IF i > Len(bands) THEN 0
  ELSE IF bands[i].lo <= total /\ total <= bands[i].hi THEN i
  ELSE ScanBands(total, bands, i + 1)

MapTotalToLabel(total, bands) ==
  LET i == ScanBands(total, bands, 1) IN
  IF i = 0 THEN "LOW" ELSE bands[i].lab

\* ------------------------------------------------------------ rule_label_row
\* systolic tiers that stack instead of excluding one another
SysPenaltyStacking(sys) ==
  LET bp == THRESHOLDS.bp_sys IN
  IF IsNan(sys) THEN 0
  ELSE (IF sys >= bp.high3 THEN 3 ELSE 0) + (IF sys >= bp.high2 THEN 2 ELSE 0)
     + (IF sys >= bp.high1 THEN 1 ELSE 0) + (IF sys <= bp.low3 THEN 3 ELSE 0)
     + (IF sys <= bp.low2 THEN 2 ELSE 0) + (IF sys <= bp.low1 THEN 1 ELSE 0)

SysPenalty(sys) ==
  LET bp == THRESHOLDS.bp_sys IN
  IF IsNan(sys) THEN 0
  ELSE IF sys >= bp.high3 THEN 3
  ELSE IF sys >= bp.high2 THEN 2
  ELSE IF sys >= bp.high1 THEN 1
  ELSE IF sys <= bp.low3 THEN 3
  ELSE IF sys <= bp.low2 THEN 2
  ELSE IF sys <= bp.low1 THEN 1
  ELSE 0

\* diastolic tiers with the top tier worth 3, as for systolic
DiaPenaltyThree(dia) ==
  LET bp == THRESHOLDS.bp_dia IN
  IF IsNan(dia) THEN 0
  ELSE IF dia >= bp.high3 THEN 3
  ELSE IF dia >= bp.high2 THEN 2
  ELSE IF dia >= bp.high1 THEN 1
  ELSE IF dia <= bp.low3 THEN 3
  ELSE IF dia <= bp.low2 THEN 2
  ELSE IF dia <= bp.low1 THEN 1
  ELSE 0

DiaPenalty(dia) ==
  LET bp == THRESHOLDS.bp_dia IN
  IF IsNan(dia) THEN 0
  ELSE IF dia >= bp.high3 THEN 2
  ELSE IF dia >= bp.high2 THEN 2
  ELSE IF dia >= bp.high1 THEN 1
  ELSE IF dia <= bp.low3 THEN 2
  ELSE IF dia <= bp.low2 THEN 2
  ELSE IF dia <= bp.low1 THEN 1
  ELSE 0

\* the interaction with the soft tier tested first
AltSpo2PenaltySoftFirst(alt, spo2) ==
  LET as_ == THRESHOLDS.altitude_spo2 IN
  IF alt >= as_.alt_high1 /\ Lt(spo2, as_.spo2_soft) THEN 2
  ELSE IF alt >= as_.alt_high2 /\ Lt(spo2, as_.spo2_hard)
       THEN 3 + (IF Lt(spo2, as_.spo2_crit) THEN 1 ELSE 0)
  ELSE 0

AltSpo2Penalty(alt, spo2) ==
  LET as_ == THRESHOLDS.altitude_spo2 IN
  IF alt >= as_.alt_high2 /\ Lt(spo2, as_.spo2_hard)
  THEN 3 + (IF Lt(spo2, as_.spo2_crit) THEN 1 ELSE 0)
  ELSE IF alt >= as_.alt_high1 /\ Lt(spo2, as_.spo2_soft) THEN 2
  ELSE 0

\* the steps ladder with the narrower cutoff tested first
StepsPenaltyLowFirst(steps) ==
  LET st_cfg == THRESHOLDS.steps IN
  IF steps <= 1000 THEN 1
  ELSE IF steps <= st_cfg.very_low THEN 2
  ELSE IF steps >= st_cfg.very_high THEN 1
  ELSE 0

StepsPenalty(steps) ==
  LET st_cfg == THRESHOLDS.steps IN
  IF steps <= st_cfg.very_low THEN 2
  ELSE IF steps <= 1000 THEN 1
  ELSE IF steps >= st_cfg.very_high THEN 1
  ELSE 0

FlagPenalty(past_incident_flag) == IF past_incident_flag = 1 THEN 2 ELSE 0

WeatherPenalty(w, skin_temp, hr_bpm) ==
  IF w = "Storm" THEN 2
  ELSE IF w \in {"Rain", "Snow", "Fog"} THEN 1
  ELSE IF w = "Hot"
       THEN (IF Ge(skin_temp, 378) \/ Gt(hr_bpm, 1100) THEN 1 ELSE 0)
  ELSE 0

\* the value of s after each block of rule_label_row
RuleScore(rec) ==
  LET v  == WearableRiskScore(rec.hr_bpm, rec.spo2_pct, rec.skin_temp)
      s0 == v.skin
      s1 == s0 + SysPenalty(rec.bloodpressure_systolic)
      s2 == s1 + DiaPenalty(rec.bp_diastolic)
      s3 == s2 + AltSpo2Penalty(rec.altitude, rec.spo2_pct)
      s4 == s3 + StepsPenalty(rec.steps)
      s5 == s4 + FlagPenalty(rec.past_incident_flag)
      s6 == s5 + WeatherPenalty(rec.weather_condition, rec.skin_temp, rec.hr_bpm)
  IN  [hr |-> v.hr, spo2 |-> v.spo2, skin |-> v.skin, sys |-> s1, dia |-> s2,
       alt |-> s3, steps |-> s4, flag |-> s5, weather |-> s6]

NoScore ==
  [hr |-> 0, spo2 |-> 0, skin |-> 0, sys |-> 0, dia |-> 0,
   alt |-> 0, steps |-> 0, flag |-> 0, weather |-> 0]

\* ------------------------------------------------------------------ records
\* readings on, just below and just above every cutoff, and NaN
HrValues ==
  {NaN, 400, 449, 450, 451, 499, 500, 501, 599, 600, 601, 750, 1000,
   1099, 1100, 1101, 1150, 1299, 1300, 1301, 1399, 1400, 1401, 1500}

Spo2Values ==
  {NaN, 850, 879, 880, 881, 919, 920, 921, 939, 940, 941, 949, 950, 951, 980}

SkinValues ==
  {NaN, 340, 349, 350, 351, 354, 355, 356, 360, 377, 378, 379, 384, 385, 386, 400}

SysValues ==
  {NaN, 60, 69, 70, 71, 79, 80, 81, 89, 90, 91, 120,
   139, 140, 141, 159, 160, 161, 179, 180, 181, 220}

DiaValues ==
  {NaN, 40, 44, 45, 46, 49, 50, 51, 59, 60, 61, 75,
   89, 90, 91, 99, 100, 101, 109, 110, 111, 140}

AltValues == {0, 1000, 2499, 2500, 2501, 2999, 3000, 3001, 3200, 5500}

StepsValues == {0, 400, 999, 1000, 1001, 1999, 2000, 2001, 5000, 29999, 30000, 40000}

FlagValues == {0, 1}

WeatherValues == {WEATHERS[i] : i \in 1..Len(WEATHERS)}

\* values outside the declared domain of the record
BadWeatherValues == {"Hail", ""}

BadStepsValues == {-1, -2500}

Rows(H, O, K, S, D, A, T, F, W) ==
  [hr_bpm : H, spo2_pct : O, skin_temp : K, bloodpressure_systolic : S,
   bp_diastolic : D, altitude : A, steps : T, past_incident_flag : F,
   weather_condition : W]

\* an unremarkable subject: every contribution is zero
Usual ==
  [hr_bpm |-> 750, spo2_pct |-> 980, skin_temp |-> 360,
   bloodpressure_systolic |-> 120, bp_diastolic |-> 75, altitude |-> 1000,
   steps |-> 5000, past_incident_flag |-> 0, weather_condition |-> "Clear"]

\* every field at a few tiers, all combinations
CoarseRows ==
  Rows({NaN, 400, 750, 1150, 1500}, {NaN, 850, 900, 930, 980},
       {NaN, 360, 380, 390}, {NaN, 120, 185}, {NaN, 75, 115},
       {1000, 2700, 3200}, {500, 5000, 30000}, FlagValues,
       {"Clear", "Hot", "Rain", "Storm"})

\* oxygen against altitude, with and without the other vitals
OxygenRows ==
  Rows({NaN, 750}, Spo2Values, {NaN, 360}, {120}, {75}, AltValues, {5000},
       {0}, {"Clear"})

\* heart rate and skin temperature against the weather
HeatRows ==
  Rows(HrValues, {980}, SkinValues, {120}, {75}, {1000}, {5000}, {0},
       WeatherValues)

PressureRows ==
  Rows({750}, {980}, {360}, SysValues, DiaValues, {1000}, {5000}, {0}, {"Clear"})

\* no vital present at all
BareRows ==
  Rows({NaN}, {NaN}, {NaN}, {NaN}, {NaN}, AltValues, StepsValues, FlagValues,
       WeatherValues)

\* records the caller should not have supplied
BadRows ==
  Rows({NaN, 750}, {980}, {NaN, 360}, {120}, {75}, {1000, 3200},
       StepsValues \cup BadStepsValues, FlagValues, BadWeatherValues)
  \cup
  Rows({NaN, 750}, {980}, {NaN, 360}, {120}, {75}, {1000, 3200},
       BadStepsValues, FlagValues, WeatherValues)

Records ==
  CoarseRows \cup OxygenRows \cup HeatRows \cup PressureRows \cup BareRows
  \cup BadRows

\* --------------------------------------------------------------- the machine
VARIABLES
  call,    \* which function is being called: "row" or "map"
  r,       \* the record passed to rule_label_row
  t,       \* the total passed to map_total_to_label when called on its own
  pc,      \* "start" before the call, "done" after it has returned
  s,       \* rule_label_row: the score after each block
  total,   \* the total handed to map_total_to_label
  band,    \* index of the band that matched, 0 when the loop fell through
  label    \* the label returned, "none" before the return

vars == <<call, r, t, pc, s, total, band, label>>

Init ==
  /\ pc = "start"
  /\ s = NoScore
  /\ total = 0
  /\ band = 0
  /\ label = "none"
  /\ \/ call = "row" /\ r \in Records /\ t = 0
     \/ call = "map" /\ r = Usual /\ t \in 0..MaxTotal

\* df.apply(rule_label_row, axis=1) on one row
RuleLabelRow ==
  /\ pc = "start"
  /\ call = "row"
  /\ LET sc == RuleScore(r) IN
       /\ s' = sc
       /\ total' = sc.weather
       /\ band' = ScanBands(sc.weather, THRESHOLDS.label_bands, 1)
       /\ label' = MapTotalToLabel(sc.weather, THRESHOLDS.label_bands)
  /\ pc' = "done"
  /\ UNCHANGED <<call, r, t>>

\* map_total_to_label(t, THRESHOLDS["label_bands"]) called on a bare total
MapTotalToLabelCall ==
  /\ pc = "start"
  /\ call = "map"
  /\ total' = t
  /\ band' = ScanBands(t, THRESHOLDS.label_bands, 1)
  /\ label' = MapTotalToLabel(t, THRESHOLDS.label_bands)
  /\ pc' = "done"
  /\ UNCHANGED <<call, r, t, s>>

Next == RuleLabelRow \/ MapTotalToLabelCall

Spec == Init /\ [][Next]_vars

Labels == {"LOW", "MODERATE", "HIGH", "CRITICAL"}

TypeOK ==
  /\ call \in {"row", "map"}
  /\ pc \in {"start", "done"}
  /\ total \in Nat
  /\ band \in 0..Len(LabelBands)
  /\ label \in Labels \cup {"none"}

\* the record is in the declared domain of its non-optional fields
WellFormed(rec) ==
  /\ rec.weather_condition \in WeatherValues
  /\ rec.steps >= 0
  /\ rec.past_incident_flag \in FlagValues

Returned == pc = "done"

RowReturned == pc = "done" /\ call = "row"

\* what each block of rule_label_row added to s
HrPart      == s.hr
Spo2Part    == s.spo2 - s.hr
SkinPart    == s.skin - s.spo2
SysPart     == s.sys - s.skin
DiaPart     == s.dia - s.sys
AltPart     == s.alt - s.dia
StepsPart   == s.steps - s.alt
FlagPart    == s.flag - s.steps
WeatherPart == s.weather - s.flag

\* ---------------------------------------------------------------------- C1
\* C1: with the configured bands, totals 0..2 are labelled LOW, 3..6
\* MODERATE, 7..11 HIGH and 12 CRITICAL, and the band returned is the first
\* one, in configured order, whose inclusive range contains the total.
C1_LabelBoundaries ==
  Returned =>
    /\ total \in 0..2  => label = "LOW"
    /\ total \in 3..6  => label = "MODERATE"
    /\ total \in 7..11 => label = "HIGH"
    /\ total = 12      => label = "CRITICAL"
    /\ \A i \in 1..4 :
         (LabelBands[i].lo <= total /\ total <= LabelBands[i].hi)
           => /\ band \in 1..i
              /\ label = LabelBands[band].lab
              /\ LabelBands[band].lo <= total /\ total <= LabelBands[band].hi

C1_Witness == Returned /\ call = "map" /\ t = 3 /\ label = "MODERATE"

\* ---------------------------------------------------------------------- C2
\* C2 as stated: with the other vitals missing, an oxygen reading of
\* exactly 88.0 scores +3 in the vitals sub-score and 88.1 scores +2.
C2_AsStated ==
  (RowReturned /\ IsNan(r.hr_bpm) /\ IsNan(r.skin_temp)) =>
    /\ r.spo2_pct = 880 => s.skin = 3
    /\ r.spo2_pct = 881 => s.skin = 2

\* C2 amended: with the other vitals missing, an oxygen reading of exactly
\* 88.0 scores +2 (it is not below 88), as does 88.1; 87.9 scores +3.
C2_StrictBoundary ==
  (RowReturned /\ IsNan(r.hr_bpm) /\ IsNan(r.skin_temp)) =>
    /\ r.spo2_pct = 879 => s.skin = 3
    /\ r.spo2_pct = 880 => s.skin = 2
    /\ r.spo2_pct = 881 => s.skin = 2

C2_Witness ==
  /\ RowReturned /\ IsNan(r.hr_bpm) /\ IsNan(r.skin_temp)
  /\ r.spo2_pct = 880 /\ s.skin = 2

\* ---------------------------------------------------------------------- C3
\* C3: a record whose weather is outside the enum, or whose steps is
\* negative, gets no label, and the offending field adds nothing to s.
C3_Rejected ==
  (RowReturned /\ ~WellFormed(r)) =>
    /\ label = "none"
    /\ r.steps < 0 => StepsPart = 0

\* ---------------------------------------------------------------------- C4
\* C4: a vital that is NaN adds 0 in its own block (and, for spo2, in the
\* altitude block; for hr and skin_temp, in the Hot test) and a label is
\* still returned; with all five NaN the total is the steps contribution
\* plus 2 for the flag plus the weather contribution (Storm 2, Rain/Snow/Fog
\* 1, anything else 0).
C4_MissingIsZero ==
  (RowReturned /\ WellFormed(r)) =>
    /\ IsNan(r.hr_bpm) => HrPart = 0
    /\ IsNan(r.spo2_pct) => Spo2Part = 0 /\ AltPart = 0
    /\ IsNan(r.skin_temp) => SkinPart = 0
    /\ IsNan(r.bloodpressure_systolic) => SysPart = 0
    /\ IsNan(r.bp_diastolic) => DiaPart = 0
    /\ (IsNan(r.hr_bpm) /\ IsNan(r.skin_temp)) => WeatherPart =
         (IF r.weather_condition = "Storm" THEN 2
          ELSE IF r.weather_condition \in {"Rain", "Snow", "Fog"} THEN 1 ELSE 0)
    /\ (IsNan(r.hr_bpm) \/ IsNan(r.spo2_pct) \/ IsNan(r.skin_temp)
        \/ IsNan(r.bloodpressure_systolic) \/ IsNan(r.bp_diastolic))
         => label \in Labels
    /\ (IsNan(r.hr_bpm) /\ IsNan(r.spo2_pct) /\ IsNan(r.skin_temp)
        /\ IsNan(r.bloodpressure_systolic) /\ IsNan(r.bp_diastolic))
         => total =
              (IF r.steps <= 2000 THEN 2 ELSE IF r.steps >= 30000 THEN 1 ELSE 0)
              + (IF r.past_incident_flag = 1 THEN 2 ELSE 0)
              + (IF r.weather_condition = "Storm" THEN 2
                 ELSE IF r.weather_condition \in {"Rain", "Snow", "Fog"} THEN 1
                 ELSE 0)

C4_Witness ==
  /\ RowReturned
  /\ IsNan(r.hr_bpm) /\ IsNan(r.spo2_pct) /\ IsNan(r.skin_temp)
  /\ IsNan(r.bloodpressure_systolic) /\ IsNan(r.bp_diastolic)
  /\ r.altitude = 3200 /\ r.steps = 400 /\ r.past_incident_flag = 1
  /\ r.weather_condition = "Hot" /\ total = 4

\* ---------------------------------------------------------------------- C5
\* C5: with spo2 present the altitude block adds 3 when altitude >= 3000 and
\* spo2 < 92, 4 when moreover spo2 < 88; otherwise 2 when altitude >= 2500
\* and spo2 < 94; otherwise 0.  It comes on top of the spo2 vitals penalty:
\* altitude >= 3000 with spo2 < 88 gives 3 + 4 = 7 from oxygen.
C5_AltitudeOxygen ==
  (RowReturned /\ ~IsNan(r.spo2_pct)) =>
    /\ AltPart =
         IF r.altitude >= 3000 /\ r.spo2_pct < 880 THEN 4
         ELSE IF r.altitude >= 3000 /\ r.spo2_pct < 920 THEN 3
         ELSE IF r.altitude >= 2500 /\ r.spo2_pct < 940 THEN 2
         ELSE 0
    /\ (r.altitude >= 3000 /\ r.spo2_pct < 880) => Spo2Part + AltPart = 7
    /\ total >= Spo2Part + AltPart

C5_Witness ==
  /\ RowReturned /\ r.altitude = 3200 /\ r.spo2_pct = 850
  /\ Spo2Part = 3 /\ AltPart = 4

\* ---------------------------------------------------------------------- C6
\* C6: in Hot weather the weather block adds 1 exactly when skin_temp is
\* present and >= 37.8 or hr_bpm is present and > 110; a NaN operand makes
\* its comparison false and a label is still returned.
C6_HotConditional ==
  (RowReturned /\ r.weather_condition = "Hot") =>
    /\ WeatherPart =
         IF \/ (~IsNan(r.skin_temp) /\ r.skin_temp >= 378)
            \/ (~IsNan(r.hr_bpm) /\ r.hr_bpm > 1100)
         THEN 1 ELSE 0
    /\ (r.skin_temp = 360 /\ r.hr_bpm = 1000) => WeatherPart = 0
    /\ r.hr_bpm = 1150 => WeatherPart = 1
    /\ (IsNan(r.skin_temp) /\ IsNan(r.hr_bpm)) => WeatherPart = 0
    /\ label \in Labels

C6_Witness ==
  /\ RowReturned /\ r.weather_condition = "Hot"
  /\ IsNan(r.skin_temp) /\ r.hr_bpm = 1150 /\ WeatherPart = 1

\* ---------------------------------------------------------------------- C7
\* C7: every total >= 0 lies in exactly one configured band, so the scan
\* never falls through to the LOW fallback, and every total >= 12 is CRITICAL.
C7_BandsExhaustive ==
  Returned =>
    /\ band # 0
    /\ Cardinality({i \in 1..Len(THRESHOLDS.label_bands) :
         THRESHOLDS.label_bands[i].lo <= total
         /\ total <= THRESHOLDS.label_bands[i].hi}) = 1
    /\ total >= 12 => label = "CRITICAL"

\* ---------------------------------------------------------------------- C8
\* C8: a present systolic reading adds the single most extreme tier reached:
\* 3 if >= 180, 2 if 160..179, 1 if 140..159, 3 if <= 70, 2 if 71..80,
\* 1 if 81..90, and 0 if 91..139.
C8_SystolicTiers ==
  (RowReturned /\ ~IsNan(r.bloodpressure_systolic)) =>
    LET sys == r.bloodpressure_systolic IN
    /\ sys >= 180 => SysPart = 3
    /\ (160 <= sys /\ sys < 180) => SysPart = 2
    /\ (140 <= sys /\ sys < 160) => SysPart = 1
    /\ sys <= 70 => SysPart = 3
    /\ (70 < sys /\ sys <= 80) => SysPart = 2
    /\ (80 < sys /\ sys <= 90) => SysPart = 1
    /\ (90 < sys /\ sys < 140) => SysPart = 0

C8_Witness ==
  RowReturned /\ r.bloodpressure_systolic = 140 /\ SysPart = 1

\* ---------------------------------------------------------------------- C9
\* C9: for steps >= 0 the steps block adds 2 when steps <= 2000, 1 when
\* steps >= 30000 and 0 otherwise; below 30000 it never adds exactly 1, so
\* the "steps <= 1000" branch never fires.
C9_StepsDeadBranch ==
  (RowReturned /\ r.steps >= 0) =>
    /\ StepsPart =
         IF r.steps <= 2000 THEN 2 ELSE IF r.steps >= 30000 THEN 1 ELSE 0
    /\ r.steps < 30000 => StepsPart # 1

C9_Witness == RowReturned /\ r.steps = 1000 /\ StepsPart = 2

\* --------------------------------------------------------------------- C10
\* C10: for a well-formed record the total is in 0..24, it lies in a
\* configured band (the LOW fallback is not taken) and the label returned is
\* one of LOW, MODERATE, HIGH, CRITICAL; 24 is attained.
C10_TotalRange ==
  (RowReturned /\ WellFormed(r)) =>
    /\ total \in 0..24
    /\ band # 0
    /\ label = THRESHOLDS.label_bands[band].lab
    /\ label \in Labels

C10_Witness == RowReturned /\ WellFormed(r) /\ total = 24 /\ label = "CRITICAL"

====
